---- MODULE Spec2Model ----
(***************************************************************************)
(* explockout: an OpenLDAP overlay meant to deny a bind while the user has *)
(* not waited an exponentially growing time after failed authentications.  *)
(* The model follows src/explockout.c: the bind hook, the response         *)
(* callback, the two attribute scanners, and the host steps around them.   *)
(* Characters are their ASCII codes, so that the scanners' comparisons of  *)
(* char values are the comparisons of the code.                            *)
(***************************************************************************)
EXTENDS Integers, Sequences, FiniteSets, TLC

VARIABLES
    cfg,        \* explockout_info: [basetime, maxtime] (on->on_bi.bi_private)
    store,      \* the backend's entries: principal -> attribute list, or NotFound
    now,        \* slap_get_time()
    alive,      \* the slapd process has not called exit()
    scan,       \* the last run of getLastPwdFailureTime: [outcome, val, of]
    pc,         \* per operation: where the bind is in the host's pipeline
    ndn,        \* per operation: op->o_req_ndn
    chain,      \* per operation: op->o_callback, the list of callbacks
    rs,         \* per operation: the reply, [sr_err, sr_text]
    at,         \* per operation: the local "now" of the response callback
    nb,         \* per operation: nb_pwdFailureTime of the response callback
    checked,    \* per operation: the backend's credential check has run
    snap,       \* per operation: Entry *e, the attributes the callback read
    refs,       \* per operation: be_entry_get_rw / be_entry_release_r calls
    ev,         \* the waiting-time computation: [n, b, m, out, loop, prev, peak, pc]
    cmp         \* the timestamp comparison: [a, b, c, ab, ba, bc, ac, pc]

vars ==
    <<cfg, store, now, alive, scan, pc, ndn, chain, rs, at, nb, checked, snap, refs,
      ev, cmp>>

----------------------------------------------------------------------------
(* Bounds of the model *)

MaxNow == 10          \* the clock runs from T0 to T0 + MaxNow
MaxCount == 7         \* failure counts given to evaluate
MaxBase == 5          \* basetime values given to evaluate

(* Program constants *)

TsLen == 14           \* the width the scanner demands of a pwdFailureTime value

----------------------------------------------------------------------------
(* Characters and strings *)

Chr(d) == 48 + d                       \* the digit d as a char
Str(ds) == [i \in 1..Len(ds) |-> Chr(ds[i])]
IsDigit(c) == c >= 48 /\ c <= 57

\* tolower() on ASCII, as REG_ICASE folds case
ToLower(c) == IF c >= 65 /\ c <= 90 THEN c + 32 ELSE c

\* "pwdFailureTime"
PwdFailureTime == <<112, 119, 100, 70, 97, 105, 108, 117, 114, 101, 84, 105, 109, 101>>
\* "PWDFAILURETIME"
PWDFAILURETIME == <<80, 87, 68, 70, 65, 73, 76, 85, 82, 69, 84, 73, 77, 69>>
\* "pwdFailureTimeBackup"
PwdFailureTimeBackup == PwdFailureTime \o <<66, 97, 99, 107, 117, 112>>
\* "cn"
Cn == <<99, 110>>
\* "userPassword"
UserPassword == <<117, 115, 101, 114, 80, 97, 115, 115, 119, 111, 114, 100>>

\* regexec() of the pattern compiled with REG_ICASE and no anchors: the
\* pattern occurs somewhere in desc, case folded.
regexec(pat, desc) ==
    \E k \in 0..(Len(desc) - Len(pat)) :
        \A i \in 1..Len(pat) : ToLower(desc[k + i]) = ToLower(pat[i])

----------------------------------------------------------------------------
(* Timestamps *)

TS_T     == Str(<<2,0,1,8,0,1,0,1,0,0,0,0,0,0>>)           \* "20180101000000"
TS_T1    == Str(<<2,0,1,8,0,1,0,1,0,0,0,0,0,1>>)           \* "20180101000001"
TS_SHORT == Str(<<2,0,1,8,0,1,0,1,0,0,0,0,0>>)             \* "2018010100000"
TS_X     == Str(<<2,0,1,8,0,1,0,1,0,0,0,0,0>>) \o <<88>>   \* "2018010100000X"
TS_LONG  == TS_T \o <<90>>                                  \* "20180101000000Z"

\* A well-formed FailureTimestamp: exactly 14 ASCII digits.
WellFormed(v) == Len(v) = TsLen /\ \A i \in 1..Len(v) : IsDigit(v[i])

Num(v, from, to) ==
    LET d(i) == v[i] - 48
    IN  IF to = from + 1 THEN d(from) * 10 + d(to)
        ELSE d(from) * 1000 + d(from + 1) * 100 + d(from + 2) * 10 + d(to)

\* days from 1970-01-01 to the civil date y-m-d
DaysFromCivil(y0, m, d) ==
    LET y   == IF m <= 2 THEN y0 - 1 ELSE y0
        era == y \div 400
        yoe == y - era * 400
        mp  == IF m > 2 THEN m - 3 ELSE m + 9
        doy == (153 * mp + 2) \div 5 + d - 1
        doe == yoe * 365 + yoe \div 4 - yoe \div 100 + doy
    IN  era * 146097 + doe - 719468

\* parse_time: lutil_parsetime + lutil_tm2time; (time_t)-1 when the value
\* does not parse.
parse_time(atm) ==
    IF ~WellFormed(atm) THEN -1
    ELSE DaysFromCivil(Num(atm, 1, 4), Num(atm, 5, 6), Num(atm, 7, 8)) * 86400
         + Num(atm, 9, 10) * 3600 + Num(atm, 11, 12) * 60 + Num(atm, 13, 14)

----------------------------------------------------------------------------
(* The waiting time *)

RECURSIVE Pow(_, _)
Pow(b, n) == IF n = 0 THEN 1 ELSE b * Pow(b, n - 1)

\* Variants of the rule, at hand to see what each property rests on: the
\* power left uncapped, a product in place of the power, and the power
\* reduced modulo maxtime in place of the cap.
WaitingTimeNoCap(n, b, m) == Pow(b, n)
WaitingTimeTimes(n, b, m) == IF b * n < m THEN b * n ELSE m
WaitingTimeWrap(n, b, m) == IF m > 0 THEN Pow(b, n) % m ELSE m

\* The rule stated with explockout_info:
\*   if base^n <  max: waiting time = base^n
\*   if base^n >= max: waiting time = max
WaitingTime(n, b, m) == IF Pow(b, n) < m THEN Pow(b, n) ELSE m

\* evaluate as a running product that stops as soon as the next
\* multiplication would exceed maxtime.
RECURSIVE product(_, _, _, _)
product(p, k, b, m) ==
    IF k = 0 THEN (IF p >= m THEN m ELSE p)
    ELSE IF b > 0 /\ p > m \div b THEN m
    ELSE product(p * b, k - 1, b, m)

evaluate(n, b, m) == product(1, n, b, m)

\* The integers of explockout_info are ints: Width bits, sign included.
Width == 15
IntMax == Pow(2, Width - 1) - 1
Wrap(x) == ((x + IntMax + 1) % (2 * (IntMax + 1))) - (IntMax + 1)
Larger(x, y) == IF x > y THEN x ELSE y

\* The running product that multiplies first and compares afterwards, in
\* Width bits; peak is the largest value a multiplication produced.
RECURSIVE productUnchecked(_, _, _, _, _)
productUnchecked(p, k, b, m, peak) ==
    IF k = 0 THEN [out |-> IF p >= m THEN m ELSE p, peak |-> peak]
    ELSE IF Wrap(p * b) > m THEN [out |-> m, peak |-> Larger(peak, p * b)]
    ELSE productUnchecked(Wrap(p * b), k - 1, b, m, Larger(peak, p * b))

\* The running product of evaluate in Width bits: the multiplication is
\* done only when its result cannot exceed maxtime.
RECURSIVE productChecked(_, _, _, _, _)
productChecked(p, k, b, m, peak) ==
    IF k = 0 THEN [out |-> IF p >= m THEN m ELSE p, peak |-> peak]
    ELSE IF b > 0 /\ p > m \div b THEN [out |-> m, peak |-> peak]
    ELSE productChecked(p * b, k - 1, b, m, Larger(peak, p * b))

evaluateWide(n, b, m) == productChecked(1, n, b, m, 1)

----------------------------------------------------------------------------
(* Entries *)

Principals == {"alice", "bob"}
NotFound == <<>>                       \* be_entry_get_rw finds no entry

Attr(desc, vals) == [a_desc |-> desc, a_vals |-> vals]
a_numvals(a) == Len(a.a_vals)

CnAttr == Attr(Cn, <<Cn>>)
PwAttr == Attr(UserPassword, <<Str(<<1, 2, 3>>)>>)

\* e->e_attrs of the entries the host may hold, as linked lists in order
R_none  == <<PwAttr, CnAttr>>
R_one   == <<Attr(PwdFailureTime, <<TS_T>>), CnAttr>>
R_two   == <<CnAttr, Attr(PWDFAILURETIME, <<TS_T, TS_T1>>), PwAttr>>
R_last  == <<CnAttr, Attr(PwdFailureTime, <<TS_T>>)>>
R_sub   == <<Attr(PwdFailureTimeBackup, <<TS_T, TS_T1>>), CnAttr>>
R_short == <<Attr(PwdFailureTime, <<TS_T, TS_SHORT>>), CnAttr>>
R_x     == <<Attr(PwdFailureTime, <<TS_X, TS_T>>), CnAttr>>
R_long  == <<Attr(PwdFailureTime, <<TS_LONG>>), CnAttr>>

Records == {R_none, R_one, R_two, R_last, R_sub, R_short, R_x, R_long}

\* the instant of TS_T, 2018-01-01 00:00:00 UTC, as time_t
T0 == parse_time(TS_T)

\* explockout-basetime / explockout-maxtime as the administrator sets them
Configs ==
    {[basetime |-> 5, maxtime |-> 300], [basetime |-> 2, maxtime |-> 60],
     [basetime |-> 5, maxtime |-> 0], [basetime |-> 0, maxtime |-> 1]}

----------------------------------------------------------------------------
(* The attribute scanners *)

\* The loop "while( attrs->a_next != NULL )" visits every attribute but the
\* last one; Found is the index of the first visited attribute whose name
\* regexec accepts, 0 when there is none.
Found(attrs) ==
    LET hits == {i \in 1..(Len(attrs) - 1) : regexec(PwdFailureTime, attrs[i].a_desc)}
    IN  IF hits = {} THEN 0 ELSE CHOOSE i \in hits : \A j \in hits : i <= j

countPwdFailureTime(attrs) ==
    IF Found(attrs) = 0 THEN 0 ELSE a_numvals(attrs[Found(attrs)])

\* The same pass with the "break" of the lesser character forgotten: a
\* greater character anywhere among the 14 makes the value replace val.
SuperiorAnywhere(value, val) == \E j \in 1..TsLen : value[j] > val[j]

\* One pass of the inner loop over j: the value replaces val when, at the
\* first differing character among the first 14, the value's is greater.
Superior(value, val) ==
    \E j \in 1..TsLen :
        /\ value[j] > val[j]
        /\ \A k \in 1..(j - 1) : value[k] = val[k]

\* The other exit of that pass: at the first differing character the
\* value's is lesser, and val is kept.
Inferior(value, val) ==
    \E j \in 1..TsLen :
        /\ value[j] < val[j]
        /\ \A k \in 1..(j - 1) : value[k] = val[k]

\* The three ways the pass ends: the value is copied, the pass breaks on a
\* lesser character, or the 14 characters are the same.
compare(a, b) ==
    IF Superior(a, b) THEN "greater"
    ELSE IF Inferior(a, b) THEN "less"
    ELSE "equal"

\* The loop over the values of the attribute, from value i on, with the
\* running maximum val: the process exits at the first value shorter than 14.
RECURSIVE scanValues(_, _, _)
scanValues(vals, i, val) ==
    IF i > Len(vals) THEN [outcome |-> "logged", val |-> val]
    ELSE IF Len(vals[i]) < TsLen THEN [outcome |-> "exit", val |-> val]
    ELSE scanValues(vals, i + 1,
                    IF Superior(vals[i], val) THEN SubSeq(vals[i], 1, TsLen) ELSE val)

\* getLastPwdFailureTime on attrs, val0 being what the uninitialized
\* buffer val[15] holds on entry.
getLastPwdFailureTime(attrs, val0) ==
    IF Found(attrs) = 0 THEN [outcome |-> "nomatch", val |-> val0]
    ELSE scanValues(attrs[Found(attrs)].a_vals, 1, val0)

\* What the uninitialized buffer may hold: zero bytes, the highest chars, or
\* what the previous call left on the stack.
Fill(c) == [i \in 1..TsLen |-> c]
UninitKinds == {"zero", "high", "stale"}
UninitVal(kind) ==
    CASE kind = "zero" -> Fill(0)
      [] kind = "high" -> Fill(127)
      [] kind = "stale" -> scan.val

----------------------------------------------------------------------------
(* The bind pipeline *)

\* the operations the host may have in flight at once, and those that the
\* server uses when binds come one at a time
OpSlots == {1, 2}
Ops == {1}

\* op->o_callback as the host hands it to the overlay: never empty, the
\* overlay framework's own callback is its head
HostChains == {<<"over_back_response">>, <<"over_back_response", "syncprov_response">>}

NoReply == [sr_err |-> "none", sr_text |-> <<>>]
NoScan == [outcome |-> "none", val |-> Fill(0), of |-> "none"]
NoEval ==
    [n |-> 0, b |-> 0, m |-> 0, out |-> -1, loop |-> -1, prev |-> -1, peak |-> 0,
     pc |-> "off"]
NoCmp == [a |-> TS_T, b |-> TS_T, c |-> TS_T, ab |-> "", ba |-> "", bc |-> "", ac |-> "",
          pc |-> "off"]
NoRefs == [get |-> 0, rel |-> 0]

\* every operation slot is free
IdleOps ==
    /\ pc = [o \in OpSlots |-> "idle"]
    /\ ndn = [o \in OpSlots |-> "alice"]
    /\ chain = [o \in OpSlots |-> <<>>]
    /\ rs = [o \in OpSlots |-> NoReply]
    /\ at = [o \in OpSlots |-> T0]
    /\ nb = [o \in OpSlots |-> 0]
    /\ checked = [o \in OpSlots |-> "none"]
    /\ snap = [o \in OpSlots |-> NotFound]
    /\ refs = [o \in OpSlots |-> NoRefs]

\* explockout_db_init: the private structure is calloc'ed, so basetime and
\* maxtime are 0 until the configuration sets them. The stored failures are
\* in the past: the clock starts after the latest of them.
Init ==
    /\ cfg = [basetime |-> 0, maxtime |-> 0]
    /\ store \in [Principals -> Records \cup {NotFound}]
    /\ store["bob"] \in {R_none, R_one, NotFound}
    /\ now = T0 + 1
    /\ alive = TRUE
    /\ scan = NoScan
    /\ IdleOps
    /\ ev = NoEval
    /\ cmp = NoCmp

\* explockoutcfg: explockout-basetime and explockout-maxtime, read at startup
Configure(c) ==
    /\ alive
    /\ cfg = [basetime |-> 0, maxtime |-> 0]
    /\ \A o \in Ops : pc[o] = "idle"
    /\ cfg' = c
    /\ UNCHANGED <<store, now, alive, scan, pc, ndn, chain, rs, at, nb, checked, snap,
                 refs, ev, cmp>>

\* The host receives a bind request for principal p.
Receive(o, p, ch) ==
    /\ alive
    /\ pc[o] = "idle"
    /\ pc' = [pc EXCEPT ![o] = "bind"]
    /\ ndn' = [ndn EXCEPT ![o] = p]
    /\ chain' = [chain EXCEPT ![o] = ch]
    /\ rs' = [rs EXCEPT ![o] = NoReply]
    /\ at' = [at EXCEPT ![o] = T0]
    /\ nb' = [nb EXCEPT ![o] = 0]
    /\ checked' = [checked EXCEPT ![o] = "none"]
    /\ snap' = [snap EXCEPT ![o] = NotFound]
    /\ refs' = [refs EXCEPT ![o] = NoRefs]
    /\ UNCHANGED <<cfg, store, now, alive, scan, ev, cmp>>

\* explockout_bind answering the bind itself instead of continuing: the
\* backend's bind is never reached.
explockout_bind_stop(o) ==
    /\ alive
    /\ pc[o] = "bind"
    /\ chain' = [chain EXCEPT ![o] =
           <<Head(chain[o]), "explockout_bind_response">> \o Tail(chain[o])]
    /\ rs' = [rs EXCEPT ![o] = [sr_err |-> "LDAP_SUCCESS", sr_text |-> <<>>]]
    /\ pc' = [pc EXCEPT ![o] = "response"]
    /\ UNCHANGED <<cfg, store, now, alive, scan, ndn, at, nb, checked, snap, refs, ev, cmp>>

\* explockout_bind without "cb->sc_next = op->o_callback->sc_next": the
\* callbacks behind the head are lost.
explockout_bind_drop(o) ==
    /\ alive
    /\ pc[o] = "bind"
    /\ chain' = [chain EXCEPT ![o] = <<Head(chain[o]), "explockout_bind_response">>]
    /\ pc' = [pc EXCEPT ![o] = "backend"]
    /\ UNCHANGED <<cfg, store, now, alive, scan, ndn, rs, at, nb, checked, snap, refs,
                 ev, cmp>>

\* explockout_bind: a new callback goes right after the head of the chain,
\* and the bind continues to the next handler (SLAP_CB_CONTINUE).
explockout_bind(o) ==
    /\ alive
    /\ pc[o] = "bind"
    /\ chain' = [chain EXCEPT ![o] =
           <<Head(chain[o]), "explockout_bind_response">> \o Tail(chain[o])]
    /\ pc' = [pc EXCEPT ![o] = "backend"]
    /\ UNCHANGED <<cfg, store, now, alive, scan, ndn, rs, at, nb, checked, snap, refs,
                 ev, cmp>>

\* The backend's bind: the real credential check, with its result.
BackendBind(o, res) ==
    /\ alive
    /\ pc[o] = "backend"
    /\ checked' = [checked EXCEPT ![o] = res]
    /\ rs' = [rs EXCEPT ![o] = [sr_err |-> res, sr_text |-> <<>>]]
    /\ pc' = [pc EXCEPT ![o] = "response"]
    /\ UNCHANGED <<cfg, store, now, alive, scan, ndn, chain, at, nb, snap, refs, ev, cmp>>

\* explockout_bind_response with the commented-out send_ldap_error left in:
\* every reply becomes LDAP_UNWILLING_TO_PERFORM.
explockout_bind_response_deny(o) ==
    /\ alive
    /\ pc[o] = "response"
    /\ at' = [at EXCEPT ![o] = IF store[ndn[o]] = NotFound THEN @ ELSE now]
    /\ nb' = [nb EXCEPT ![o] =
           IF store[ndn[o]] = NotFound THEN 0
           ELSE countPwdFailureTime(store[ndn[o]])]
    /\ snap' = [snap EXCEPT ![o] = store[ndn[o]]]
    /\ refs' = [refs EXCEPT ![o] =
           IF store[ndn[o]] = NotFound THEN @
           ELSE [get |-> @.get + 1, rel |-> @.rel + 1]]
    /\ rs' = [rs EXCEPT ![o] =
           IF store[ndn[o]] = NotFound THEN @
           ELSE [sr_err |-> "LDAP_UNWILLING_TO_PERFORM", sr_text |-> <<>>]]
    /\ pc' = [pc EXCEPT ![o] = "done"]
    /\ UNCHANGED <<cfg, store, now, alive, scan, ndn, chain, checked, ev, cmp>>

\* explockout_bind_response with the commented-out update of the entry left
\* in: an attribute carrying the time of the bind is written to the entry.
explockout_bind_response_modify(o) ==
    /\ alive
    /\ pc[o] = "response"
    /\ at' = [at EXCEPT ![o] = IF store[ndn[o]] = NotFound THEN @ ELSE now]
    /\ nb' = [nb EXCEPT ![o] =
           IF store[ndn[o]] = NotFound THEN 0
           ELSE countPwdFailureTime(store[ndn[o]])]
    /\ snap' = [snap EXCEPT ![o] = store[ndn[o]]]
    /\ refs' = [refs EXCEPT ![o] =
           IF store[ndn[o]] = NotFound THEN @
           ELSE [get |-> @.get + 1, rel |-> @.rel + 1]]
    /\ store' = [store EXCEPT ![ndn[o]] =
           IF @ = NotFound THEN @ ELSE Append(@, Attr(Cn, <<TS_T>>))]
    /\ pc' = [pc EXCEPT ![o] = "done"]
    /\ UNCHANGED <<cfg, now, alive, scan, ndn, chain, rs, checked, ev, cmp>>

\* explockout_bind_response with the "return" of the failed fetch taken
\* for a "goto done": the entry is released whether it was obtained or not.
explockout_bind_response_release(o) ==
    /\ alive
    /\ pc[o] = "response"
    /\ at' = [at EXCEPT ![o] = IF store[ndn[o]] = NotFound THEN @ ELSE now]
    /\ nb' = [nb EXCEPT ![o] =
           IF store[ndn[o]] = NotFound THEN 0
           ELSE countPwdFailureTime(store[ndn[o]])]
    /\ snap' = [snap EXCEPT ![o] = store[ndn[o]]]
    /\ refs' = [refs EXCEPT ![o] =
           IF store[ndn[o]] = NotFound THEN [get |-> @.get, rel |-> @.rel + 1]
           ELSE [get |-> @.get + 1, rel |-> @.rel + 1]]
    /\ pc' = [pc EXCEPT ![o] = "done"]
    /\ UNCHANGED <<cfg, store, now, alive, scan, ndn, chain, rs, checked, ev, cmp>>

\* explockout_bind_response, run by the host when it sends the result: the
\* entry is fetched; when that fails the callback returns at once; else the
\* failures are counted and the entry released. The reply is left as it is
\* (the send_ldap_error is commented out) and SLAP_CB_CONTINUE is returned.
explockout_bind_response(o) ==
    /\ alive
    /\ pc[o] = "response"
    /\ at' = [at EXCEPT ![o] = IF store[ndn[o]] = NotFound THEN @ ELSE now]
    /\ nb' = [nb EXCEPT ![o] =
           IF store[ndn[o]] = NotFound THEN 0
           ELSE countPwdFailureTime(store[ndn[o]])]
    /\ snap' = [snap EXCEPT ![o] = store[ndn[o]]]
    /\ refs' = [refs EXCEPT ![o] =
           IF store[ndn[o]] = NotFound THEN @
           ELSE [get |-> @.get + 1, rel |-> @.rel + 1]]
    /\ pc' = [pc EXCEPT ![o] = "done"]
    /\ UNCHANGED <<cfg, store, now, alive, scan, ndn, chain, rs, checked, ev, cmp>>

\* The host abandons an operation in flight.
Abort(o) ==
    /\ alive
    /\ pc[o] \in {"bind", "backend", "response"}
    /\ pc' = [pc EXCEPT ![o] = "aborted"]
    /\ UNCHANGED <<cfg, store, now, alive, scan, ndn, chain, rs, at, nb, checked, snap,
                 refs, ev, cmp>>

\* The operation is over; its slot serves the next request.
Finish(o) ==
    /\ alive
    /\ pc[o] \in {"done", "aborted"}
    /\ pc' = [pc EXCEPT ![o] = "idle"]
    /\ UNCHANGED <<cfg, store, now, alive, scan, ndn, chain, rs, at, nb, checked, snap,
                 refs, ev, cmp>>

\* getLastPwdFailureTime called on the entry of principal p.
LastPwdFailureTime(p, kind) ==
    /\ alive
    /\ store[p] # NotFound
    /\ LET r == getLastPwdFailureTime(store[p], UninitVal(kind))
       IN  /\ scan' = [outcome |-> r.outcome, val |-> r.val, of |-> p]
           /\ alive' = (r.outcome # "exit")
    /\ UNCHANGED <<cfg, store, now, pc, ndn, chain, rs, at, nb, checked, snap, refs,
                 ev, cmp>>

Tick ==
    /\ alive
    /\ now < T0 + MaxNow
    /\ now' = now + 1
    /\ UNCHANGED <<cfg, store, alive, scan, pc, ndn, chain, rs, at, nb, checked, snap,
                 refs, ev, cmp>>

\* One step of the bind pipeline.
Pipeline ==
    \/ \E c \in Configs : Configure(c)
    \/ \E o \in Ops, p \in Principals, ch \in HostChains : Receive(o, p, ch)
    \/ \E o \in Ops : explockout_bind(o)
    \/ \E o \in Ops, res \in {"LDAP_SUCCESS", "LDAP_INVALID_CREDENTIALS"} : BackendBind(o, res)
    \/ \E o \in Ops : explockout_bind_response(o)
    \/ \E o \in Ops : Abort(o)
    \/ \E o \in Ops : Finish(o)

Next == Pipeline \/ Tick

\* The server serving binds while the clock runs.
Spec == Init /\ [][Next]_vars

NextScan ==
    \/ Pipeline
    \/ \E p \in Principals, kind \in UninitKinds : LastPwdFailureTime(p, kind)

\* The server serving binds, with getLastPwdFailureTime run on its entries.
SpecScan == Init /\ [][NextScan]_vars

----------------------------------------------------------------------------
(* The waiting-time computation on its own *)

MaxTimes == {0, 1, 2, 5, 60, 300}

InitEval ==
    /\ cfg = [basetime |-> 0, maxtime |-> 0]
    /\ store = [p \in Principals |-> NotFound]
    /\ now = T0
    /\ alive = TRUE
    /\ scan = NoScan
    /\ IdleOps
    /\ cmp = NoCmp
    /\ \E n \in 0..MaxCount, b \in 0..MaxBase, m \in MaxTimes :
           ev = [n |-> n, b |-> b, m |-> m, out |-> -1, loop |-> -1, prev |-> -1,
                 peak |-> 0, pc |-> "in"]

\* The waiting time is computed for the inputs, by the rule the source
\* states (out) and by the running product (loop); prev keeps the waiting
\* time of the count before.
EvalCall ==
    /\ ev.pc = "in"
    /\ ev' = [ev EXCEPT !.out = WaitingTime(ev.n, ev.b, ev.m),
                        !.loop = evaluate(ev.n, ev.b, ev.m),
                        !.prev = ev.out, !.pc = "out"]
    /\ UNCHANGED <<cfg, store, now, alive, scan, pc, ndn, chain, rs, at, nb, checked,
                 snap, refs, cmp>>

\* One more failure is recorded: the next evaluation is for n + 1.
EvalFailure ==
    /\ ev.pc = "out"
    /\ ev.n < MaxCount
    /\ ev' = [ev EXCEPT !.n = ev.n + 1, !.pc = "in"]
    /\ UNCHANGED <<cfg, store, now, alive, scan, pc, ndn, chain, rs, at, nb, checked,
                 snap, refs, cmp>>

NextEval == EvalCall \/ EvalFailure

SpecEval == InitEval /\ [][NextEval]_vars

----------------------------------------------------------------------------
(* The waiting-time computation at the limits of the integer width *)

WideCounts == {0, 1, 2, 3, Width, 2 * Width, 40}
WideBases == {0, 1, 2, 3, 128, IntMax}
WideMaxTimes == {0, 1, 300, 3600, IntMax - 1, IntMax}

InitWide ==
    /\ cfg = [basetime |-> 0, maxtime |-> 0]
    /\ store = [p \in Principals |-> NotFound]
    /\ now = T0
    /\ alive = TRUE
    /\ scan = NoScan
    /\ IdleOps
    /\ cmp = NoCmp
    /\ \E n \in WideCounts, b \in WideBases, m \in WideMaxTimes :
           ev = [n |-> n, b |-> b, m |-> m, out |-> -1, loop |-> -1, prev |-> -1,
                 peak |-> 0, pc |-> "wide-in"]

\* evaluate is run on the inputs: loop is its result, peak the largest
\* value a multiplication produced on the way.
WideCall ==
    /\ ev.pc = "wide-in"
    /\ LET r == evaluateWide(ev.n, ev.b, ev.m)
       IN  ev' = [ev EXCEPT !.loop = r.out, !.peak = r.peak, !.pc = "wide-out"]
    /\ UNCHANGED <<cfg, store, now, alive, scan, pc, ndn, chain, rs, at, nb, checked,
                 snap, refs, cmp>>

NextWide == WideCall

SpecWide == InitWide /\ [][NextWide]_vars

----------------------------------------------------------------------------
(* The timestamp comparison on its own *)

\* well-formed values that differ in the year, month, day, hour, minute,
\* second, and in a carry between two digits
CmpStamps ==
    {TS_T, TS_T1,
     Str(<<2,0,1,8,0,1,0,1,0,0,0,0,0,9>>), Str(<<2,0,1,8,0,1,0,1,0,0,0,0,1,0>>),
     Str(<<2,0,1,8,0,1,0,1,0,0,0,1,0,0>>), Str(<<2,0,1,8,0,1,0,1,0,1,0,0,0,0>>),
     Str(<<2,0,1,8,0,1,0,2,0,0,0,0,0,0>>), Str(<<2,0,1,8,0,2,0,1,0,0,0,0,0,0>>),
     Str(<<2,0,1,7,1,2,3,1,2,3,5,9,5,9>>), Str(<<2,0,1,9,0,1,0,1,0,0,0,0,0,0>>)}

InitCmp ==
    /\ cfg = [basetime |-> 0, maxtime |-> 0]
    /\ store = [p \in Principals |-> NotFound]
    /\ now = T0
    /\ alive = TRUE
    /\ scan = NoScan
    /\ IdleOps
    /\ ev = NoEval
    /\ \E a \in CmpStamps, b \in CmpStamps, c \in CmpStamps :
           cmp = [a |-> a, b |-> b, c |-> c, ab |-> "", ba |-> "", bc |-> "", ac |-> "",
                  pc |-> "in"]

\* The values are compared pairwise.
CompareCall ==
    /\ cmp.pc = "in"
    /\ cmp' = [cmp EXCEPT !.ab = compare(cmp.a, cmp.b), !.ba = compare(cmp.b, cmp.a),
                          !.bc = compare(cmp.b, cmp.c), !.ac = compare(cmp.a, cmp.c),
                          !.pc = "out"]
    /\ UNCHANGED <<cfg, store, now, alive, scan, pc, ndn, chain, rs, at, nb, checked,
                 snap, refs, ev>>

NextCmp == CompareCall

SpecCmp == InitCmp /\ [][NextCmp]_vars

----------------------------------------------------------------------------
(* What the lockout asks for, against which the pipeline is judged *)

\* the name is pwdFailureTime, whatever the case
NameIs(desc) ==
    /\ Len(desc) = Len(PwdFailureTime)
    /\ \A i \in 1..Len(desc) : ToLower(desc[i]) = ToLower(PwdFailureTime[i])

\* the failure timestamps of an entry: the values of its pwdFailureTime
History(attrs) ==
    LET idx == {i \in 1..Len(attrs) : NameIs(attrs[i].a_desc)}
    IN  IF idx = {} THEN <<>> ELSE attrs[CHOOSE i \in idx : TRUE].a_vals

FailureCount(attrs) == Len(History(attrs))
AllWellFormed(attrs) == \A i \in 1..FailureCount(attrs) : WellFormed(History(attrs)[i])

HasShort(attrs) == \E i \in 1..FailureCount(attrs) : Len(History(attrs)[i]) < TsLen

\* the time of the most recent failure
Latest(attrs) ==
    LET h == History(attrs)
    IN  CHOOSE t \in {parse_time(h[i]) : i \in 1..Len(h)} :
            \A i \in 1..Len(h) : parse_time(h[i]) <= t

\* the end of the lockout window of an entry with failures
WindowEnd(attrs) ==
    Latest(attrs) + WaitingTime(FailureCount(attrs), cfg.basetime, cfg.maxtime)

\* the verdict the history of an entry asks for at time t
Due(attrs, t) ==
    IF FailureCount(attrs) = 0 THEN "Allowed"
    ELSE IF ~AllWellFormed(attrs) THEN "Denied"
    ELSE IF t < WindowEnd(attrs) THEN "Denied" ELSE "Allowed"

\* the verdict operation o got from the overlay: the reply is the denial or
\* it is what the credential check made it
Verdict(o) ==
    IF rs[o].sr_err = "LDAP_UNWILLING_TO_PERFORM" THEN "Denied" ELSE "Allowed"

\* operation o is over and its entry was there to evaluate
Evaluated(o) == pc[o] = "done" /\ store[ndn[o]] # NotFound
Entry(o) == store[ndn[o]]

\* ... and the callback counted the failures the entry holds
Counted(o) == Evaluated(o) /\ nb[o] = FailureCount(Entry(o))

----------------------------------------------------------------------------
(* Claims *)

\* C1: once the verdict of an attempt is Denied, the real credential check
\* is never invoked for that attempt: an attempt whose history asks for
\* denial at its evaluation has not had the credential check run.
C1_DeniedBeforeCheck ==
    \A o \in Ops :
        (Counted(o) /\ AllWellFormed(Entry(o)) /\ Due(Entry(o), at[o]) = "Denied")
            => checked[o] = "none"

\* C2: for an attempt on a principal with count >= 1 failures, the verdict
\* is Denied exactly when now < latest + waitSeconds, Allowed otherwise.
C2_VerdictByTime ==
    \A o \in Ops :
        (Counted(o) /\ FailureCount(Entry(o)) >= 1 /\ AllWellFormed(Entry(o)))
            => (Verdict(o) = "Denied" <=> at[o] < WindowEnd(Entry(o)))

\* C3: a Denied verdict carries retryAfterSeconds = latest + waitSeconds - now,
\* and an Allowed verdict carries none.
C3_RetryAfter ==
    \A o \in Ops :
        (Counted(o) /\ AllWellFormed(Entry(o))) =>
            IF Due(Entry(o), at[o]) = "Denied"
            THEN rs[o].sr_text = <<WindowEnd(Entry(o)) - at[o]>>
            ELSE rs[o].sr_text = <<>>

\* C4: for all failureCount >= 0, basetime >= 0 and maxtime >= 0 the waiting
\* time is at most maxtime.
C4_AtMostMaxtime ==
    ev.pc = "out" => (ev.out <= ev.m /\ ev.loop <= ev.m)

C4_Witness ==
    ev.pc = "out" /\ Pow(ev.b, ev.n) > ev.m /\ ev.m = 300 /\ ev.out = 300

\* C5: the waiting time is basetime^failureCount when that power is below
\* maxtime and maxtime when the power is at or above it; basetime 2 and
\* maxtime 60 give 2,4,8,16,32,60,60 for the counts 1..7.
C5_PowerOrCap ==
    ev.pc = "out" =>
        /\ Pow(ev.b, ev.n) < ev.m => (ev.out = Pow(ev.b, ev.n) /\ ev.loop = Pow(ev.b, ev.n))
        /\ Pow(ev.b, ev.n) >= ev.m => (ev.out = ev.m /\ ev.loop = ev.m)
        /\ (ev.b = 2 /\ ev.m = 60 /\ ev.n \in 1..7)
               => ev.out = <<2, 4, 8, 16, 32, 60, 60>>[ev.n]

C5_Witness ==
    ev.pc = "out" /\ ev.b = 2 /\ ev.m = 60 /\ ev.n = 6 /\ ev.out = 60 /\ ev.loop = 60

\* C6: for basetime > 1 the waiting time never decreases when the failure
\* count grows by one, and once it is maxtime it is maxtime for every larger
\* count.
C6_NonDecreasing ==
    (ev.pc = "out" /\ ev.b > 1) =>
        /\ ev.prev # -1 => ev.prev <= ev.out
        /\ ev.out <= WaitingTime(ev.n + 1, ev.b, ev.m)
        /\ ev.out = ev.m =>
               \A k \in ev.n..MaxCount : WaitingTime(k, ev.b, ev.m) = ev.m

C6_Witness ==
    ev.pc = "out" /\ ev.b = 2 /\ ev.m = 60 /\ ev.n = 7 /\ ev.prev = 60 /\ ev.out = 60

\* C7, as amended: with zero failures the waiting time is 1 when maxtime >= 1
\* and 0 when maxtime = 0, and an evaluation that counts zero failures ends
\* Allowed.
C7_ZeroFailures ==
    \A o \in Ops :
        (Evaluated(o) /\ nb[o] = 0) =>
            /\ Verdict(o) = "Allowed"
            /\ cfg.maxtime >= 1 => WaitingTime(0, cfg.basetime, cfg.maxtime) = 1
            /\ cfg.maxtime >= 1 => evaluate(0, cfg.basetime, cfg.maxtime) = 1
            /\ cfg.maxtime = 0 => WaitingTime(0, cfg.basetime, cfg.maxtime) = 0

C7_Witness ==
    \E o \in Ops :
        /\ Evaluated(o) /\ Entry(o) = R_none /\ nb[o] = 0
        /\ cfg.maxtime = 300 /\ rs[o].sr_err = "LDAP_SUCCESS"

\* C7 as stated: with zero failures the waiting time is 1 for every basetime
\* and maxtime, and the evaluation ends Allowed.
C7_Original ==
    \A o \in Ops :
        (Evaluated(o) /\ nb[o] = 0) =>
            /\ Verdict(o) = "Allowed"
            /\ WaitingTime(0, cfg.basetime, cfg.maxtime) = 1

\* C8: for a principal whose entry has no pwdFailureTime attribute the count
\* is 0 and the verdict is Allowed without a wait, the reply being the
\* credential check's.
C8_NoHistoryAllowed ==
    \A o \in Ops :
        (Evaluated(o) /\ FailureCount(Entry(o)) = 0) =>
            /\ nb[o] = 0
            /\ Verdict(o) = "Allowed"
            /\ rs[o] = [sr_err |-> checked[o], sr_text |-> <<>>]

\* C9: a malformed stored failure timestamp (here: one shorter than 14
\* characters) ends that evaluation in FormatError, and the process never
\* terminates because of it, so that later attempts are still served.
C9_MalformedIsFormatError ==
    /\ alive
    /\ (scan.of # "none" /\ HasShort(store[scan.of])) => scan.outcome = "FormatError"

\* C10: only a value of exactly 14 digits is accepted; a scan that ran to
\* its end rejected nothing, so all the values it compared are well-formed.
C10_OnlyWellFormedAccepted ==
    (scan.of # "none" /\ scan.outcome = "logged") => AllWellFormed(store[scan.of])

\* the value of the 14 digits as a number, in two halves of 7 digits
Half(v, from) ==
    Num(v, from, from + 3) * 1000 + (v[from + 4] - 48) * 100 + Num(v, from + 5, from + 6)
NumLess(a, b) ==
    \/ Half(a, 1) < Half(b, 1)
    \/ Half(a, 1) = Half(b, 1) /\ Half(a, 8) < Half(b, 8)

Reverse(r) == CASE r = "less" -> "greater" [] r = "greater" -> "less" [] OTHER -> r

\* C11: on well-formed 14-digit values the comparison is a total order that
\* agrees with the numeric and chronological order: compare(b,a) is the
\* reverse of compare(a,b), equal holds of identical values only, less is
\* transitive, and compare(a,b) = less iff a is the smaller number.
C11_TotalOrder ==
    cmp.pc = "out" =>
        /\ cmp.ba = Reverse(cmp.ab)
        /\ cmp.ab = "equal" <=> cmp.a = cmp.b
        /\ (cmp.ab = "less" /\ cmp.bc = "less") => cmp.ac = "less"
        /\ (cmp.ab = "equal" /\ cmp.bc = "equal") => cmp.ac = "equal"
        /\ cmp.ab = "less" <=> NumLess(cmp.a, cmp.b)
        /\ cmp.ab = "less" <=> parse_time(cmp.a) < parse_time(cmp.b)

C11_Witness ==
    /\ cmp.pc = "out" /\ cmp.a = TS_T /\ cmp.b = TS_T1 /\ cmp.ab = "less"
    /\ cmp.bc = "less" /\ cmp.ac = "less" /\ cmp.ba = "greater"

\* C12: when the verdict is Allowed the real credential check has been
\* invoked and the reply the caller gets is the one the check produced.
C12_ResultUnchanged ==
    \A o \in Ops :
        (pc[o] = "done" /\ Verdict(o) = "Allowed") =>
            /\ checked[o] \in {"LDAP_SUCCESS", "LDAP_INVALID_CREDENTIALS"}
            /\ rs[o] = [sr_err |-> checked[o], sr_text |-> <<>>]

C12_Witness ==
    \E o \in Ops :
        /\ Evaluated(o) /\ nb[o] >= 1 /\ Verdict(o) = "Allowed"
        /\ checked[o] = "LDAP_INVALID_CREDENTIALS"

\* C13: when the fetch of the entry fails the attempt is denied (fail
\* closed), not passed through.
C13_FetchFailureDenied ==
    \A o \in Ops :
        (pc[o] = "done" /\ store[ndn[o]] = NotFound) => Verdict(o) = "Denied"

\* C14: no step of the overlay, whatever its outcome, changes the stored
\* entries or the configuration.
C14_ReadOnly ==
    [][\A o \in Ops :
          (pc[o] \in {"bind", "response"} /\ pc'[o] \in {"backend", "done"})
              => (store' = store /\ cfg' = cfg)]_vars

C14_Witness ==
    \E o \in Ops : Evaluated(o) /\ nb[o] = 2 /\ cfg.maxtime = 60 /\ Entry(o) = R_two

----------------------------------------------------------------------------
(* Binds of one principal in flight together, the host recording failures *)

MaxHistory == 2

\* a time_t of the first minute after T0 as the 14 characters the host stores
FormatTime(t) ==
    [TS_T EXCEPT ![13] = Chr((t - T0) \div 10), ![14] = Chr((t - T0) % 10)]

\* the entry with one more failure timestamp: added to the values of its
\* pwdFailureTime, or as a new attribute when it has none
WithFailure(attrs, ts) ==
    LET idx == {i \in 1..Len(attrs) : NameIs(attrs[i].a_desc)}
    IN  IF idx = {} THEN <<Attr(PwdFailureTime, <<ts>>)>> \o attrs
        ELSE LET i == CHOOSE j \in idx : TRUE
             IN  [attrs EXCEPT ![i] = Attr(@.a_desc, Append(@.a_vals, ts))]

\* the server once its configuration is read, alice with or without a
\* failure on record
InitConc ==
    /\ cfg = [basetime |-> 2, maxtime |-> 60]
    /\ store \in [Principals -> {R_none, R_one, NotFound}]
    /\ store["alice"] # NotFound
    /\ store["bob"] = NotFound
    /\ now = T0 + 1
    /\ alive = TRUE
    /\ scan = NoScan
    /\ IdleOps
    /\ ev = NoEval
    /\ cmp = NoCmp

\* The host records the failed bind of operation o in the entry of its
\* principal, at any moment after the credential check.
HostRecordFailure(o) ==
    /\ alive
    /\ pc[o] \in {"response", "done"}
    /\ checked[o] = "LDAP_INVALID_CREDENTIALS"
    /\ store[ndn[o]] # NotFound
    /\ FailureCount(store[ndn[o]]) < MaxHistory
    /\ store' = [store EXCEPT ![ndn[o]] = WithFailure(@, FormatTime(now))]
    /\ UNCHANGED <<cfg, now, alive, scan, pc, ndn, chain, rs, at, nb, checked, snap, refs,
                 ev, cmp>>

NextConc ==
    \/ \E o \in OpSlots : Receive(o, "alice", <<"over_back_response">>)
    \/ \E o \in OpSlots : explockout_bind(o)
    \/ \E o \in OpSlots, res \in {"LDAP_SUCCESS", "LDAP_INVALID_CREDENTIALS"} :
           BackendBind(o, res)
    \/ \E o \in OpSlots : explockout_bind_response(o)
    \/ \E o \in OpSlots : HostRecordFailure(o)
    \/ Tick

\* Two binds of alice served at once while the clock runs.
SpecConc == InitConc /\ [][NextConc]_vars

\* C15: under any interleaving of the binds of a principal with the host's
\* updates of its failure history, an attempt that is Allowed read a
\* snapshot that justifies it: now >= latest + evaluate(count).
C15_AllowedBySnapshot ==
    \A o \in OpSlots :
        (/\ pc[o] = "done" /\ Verdict(o) = "Allowed"
         /\ FailureCount(snap[o]) >= 1 /\ AllWellFormed(snap[o])
         /\ nb[o] = FailureCount(snap[o])) =>
            at[o] >= Latest(snap[o])
                       + evaluate(FailureCount(snap[o]), cfg.basetime, cfg.maxtime)

\* C16: the count is the number of values of the attribute named
\* pwdFailureTime (whatever the case), wherever it sits in the list, and no
\* other attribute contributes to it.
C16_CountOfNamedAttribute ==
    \A o \in Ops : Evaluated(o) => nb[o] = FailureCount(Entry(o))

\* C17: for a non-empty history of well-formed timestamps the extractor's
\* latest is the maximum of the history, whatever the buffer of the running
\* maximum held before the scan.
C17_LatestIsMaximum ==
    (/\ scan.of # "none" /\ scan.outcome = "logged"
     /\ FailureCount(store[scan.of]) >= 1 /\ AllWellFormed(store[scan.of])) =>
        /\ \E i \in 1..FailureCount(store[scan.of]) : History(store[scan.of])[i] = scan.val
        /\ parse_time(scan.val) = Latest(store[scan.of])

\* r = b^n, decided by division so that no power is ever computed
RECURSIVE IsPow(_, _, _)
IsPow(r, b, n) ==
    IF n = 0 THEN r = 1
    ELSE IF b = 0 THEN r = 0
    ELSE r % b = 0 /\ IsPow(r \div b, b, n - 1)

\* C18: whatever the failure count, no multiplication of evaluate yields a
\* value outside the integer range, and the result is basetime^failureCount
\* when that is below maxtime and maxtime otherwise, never a wrapped value.
C18_NoOverflow ==
    ev.pc = "wide-out" =>
        /\ ev.peak <= IntMax
        /\ ev.peak <= Larger(ev.m, 1)
        /\ IF \E r \in 0..(ev.m - 1) : IsPow(r, ev.b, ev.n)
           THEN ev.loop < ev.m /\ IsPow(ev.loop, ev.b, ev.n)
           ELSE ev.loop = ev.m

C18_Witness ==
    /\ ev.pc = "wide-out" /\ ev.n = 40 /\ ev.b = IntMax
    /\ ev.m = IntMax /\ ev.loop = IntMax /\ ev.peak = IntMax

\* C19: the entry is released exactly once when its fetch succeeded and
\* never when it failed; none stays held after the callback returned.
C19_ReleasedOnce ==
    \A o \in Ops :
        /\ pc[o] = "done" =>
               IF store[ndn[o]] = NotFound THEN refs[o] = [get |-> 0, rel |-> 0]
               ELSE refs[o] = [get |-> 1, rel |-> 1]
        /\ pc[o] \in {"bind", "backend", "response", "aborted"} =>
               refs[o] = [get |-> 0, rel |-> 0]
        /\ refs[o].get = refs[o].rel

C19_Witness ==
    \E o \in Ops : Evaluated(o) /\ refs[o].get = 1 /\ refs[o].rel = 1

\* C20: explockout_bind leaves the chain as it was with one response
\* callback inserted right after its head, the callbacks registered before
\* in their order, and the bind goes on to the next handler.
C20_CallbackInserted ==
    [][\A o \in Ops :
          (pc[o] = "bind" /\ pc'[o] # "bind" /\ pc'[o] # "aborted") =>
              /\ pc'[o] = "backend"
              /\ Len(chain'[o]) = Len(chain[o]) + 1
              /\ chain'[o][1] = chain[o][1]
              /\ chain'[o][2] = "explockout_bind_response"
              /\ \A i \in 2..Len(chain[o]) : chain'[o][i + 1] = chain[o][i]]_vars

C20_Witness ==
    \E o \in Ops :
        /\ pc[o] = "backend"
        /\ chain[o] = <<"over_back_response", "explockout_bind_response", "syncprov_response">>

====
